---- MODULE Spec2Model ----
(***************************************************************************)
(* Clavicula: an observable store (createStore), computed stores (derived, *)
(* batchedDerived) and the decorators withBatching, withDistinct,          *)
(* withFreeze, withReset, withHistory and withPersist, modelled as a state *)
(* machine.  One action is one call made by the application (or one        *)
(* microtask); everything the call does synchronously - the notification   *)
(* pass, the recomputations it triggers, their own notification passes -   *)
(* is part of that action.  `trace` lists, in order, what the last action  *)
(* invoked: listeners, compute functions and the set() of a wrapped store. *)
(***************************************************************************)
EXTENDS Integers, Sequences, FiniteSets, TLC

\* ------------------------------------------------------------------ bounds
MaxVal   == 2    \* field values range over 0..MaxVal
MaxCalls == 4    \* calls the application makes in one behaviour
MaxSize  == 2    \* withHistory(store, maxSize): maxSize ranges over 1..MaxSize
MaxDepth == 2    \* objects nested one inside the other in a field

\* ------------------------------------------------------------- vocabulary
Cells == {"A", "B"}
Nodes == {"N"}
Keys  == {"v", "w"}
Fns   == {"f", "g"}
Vals  == 0..MaxVal

\* A JavaScript value: an object has an identity (the n-th object allocated by
\* store `by`), a primitive has none and is compared by its contents.
NoRef     == [by |-> "-", n |-> 0]
Ref(s, k) == [by |-> s, n |-> k]
Prim(x)   == [ref |-> NoRef, val |-> x]
Obj(r, x) == [ref |-> r, val |-> x]

\* Records over the keys: every function from a subset of Keys to Vals.
Records == UNION {[K -> Vals] : K \in SUBSET Keys}

EmptyRec == [k \in {} |-> 0]

\* { ...r, ...u }
Merge(r, u) == [k \in (DOMAIN r) \cup (DOMAIN u) |-> IF k \in DOMAIN u THEN u[k] ELSE r[k]]

\* r.k, for a field the record has (every record modelled has the field v)
Field(r, k) == r[k]

\* The argument of set(): a partial record, or an updater function.
\* "inc" is  s => ({ v: s.v + 1 }).
PartialUpdates == {[kind |-> "partial", rec |-> u] : u \in Records}
Updater        == [kind |-> "fn", rec |-> EmptyRec]
Updates        == PartialUpdates \cup {Updater}

\* An updater that throws: s => { throw new Error() }
Thrower    == [kind |-> "throws", rec |-> EmptyRec]
Throws(upd) == upd.kind = "throws"

\* The writes made to the sources of a node: the field v that the derivation
\* functions read, an updater, and on A an unrelated field or no field at all.
SourceUpdates(c) ==
  {u \in Updates : DOMAIN u.rec = {"v"} \/ u = Updater}
    \cup (IF c = "A" THEN {[kind |-> "partial", rec |-> EmptyRec],
                           [kind |-> "partial", rec |-> [w |-> 0]]}
          ELSE {})

ResolveUpdate(upd, cur) ==
  IF upd.kind = "fn" THEN [k \in {"v"} |-> Field(cur, "v") + 1] ELSE upd.rec

\* Object.is
ObjectIs(a, b) == a.ref = b.ref /\ (a.ref = NoRef => a.val = b.val)

\* A custom isEqual comparing contents (shallowArrayEqual: same length, same
\* elements).
SameContents(a, b) == a.val = b.val

IsEqual(eq, a, b) == IF eq = "is" THEN ObjectIs(a, b) ELSE SameContents(a, b)

\* A listener: a callback of the application, or the handler a node installs
\* on one of its sources.
UserL(f) == [kind |-> "user", id |-> f]
DepL(n)  == [kind |-> "dep", id |-> n]

\* The identity of a handler on a cell's bus: the application's k-th
\* subscription, or the one node n installed on its i-th source.
UserHid(k)   == [owner |-> "user", idx |-> k]
DepHid(n, i) == [owner |-> n, idx |-> i]
NoHid        == [owner |-> "-", idx |-> 0]

\* Callbacks that act when they are called with the value 1 (x.v === 1 from a
\* cell, x[0] === 1 or x === 1 from a node), and do nothing on any other value:
\*   "s"   subscribes the callback g to the store it is subscribed to;
\*   "u1", "u2", "u3"  call the first, second, third unsubscribe function
\*         the application holds, once it holds it: if (un) un();
\*   "w"   calls set({ w: 1 }) on the withBatching wrapper;
\*   "r"   calls set({ v: 2 }) on the cell that called it.
\* f and g never act.
Target == [u1 |-> 1, u2 |-> 2, u3 |-> 3]
Unsubscribers == DOMAIN Target
Writers == {"w", "r"}
WriteOf == [w |-> [kind |-> "partial", rec |-> [w |-> 1]],
            r |-> [kind |-> "partial", rec |-> [v |-> 2]]]

Triggered(src, val) ==
  IF src \in Cells THEN val.val["v"] = 1
  ELSE IF val.ref = NoRef THEN val.val = 1 ELSE val.val = <<1>>

VARIABLES
  state,       \* createStore: let state
  bus,         \* createStore: the EventTarget's listener list, in order
  node,        \* derived / batchedDerived: the closure's variables
  wrap,        \* withBatching: batching, queued
  deco,        \* withReset, withHistory, withPersist: their closures' variables
  microtasks,  \* the microtask queue
  held,        \* the unsubscribe functions subscribe() returned to the application
  nextRef,     \* per store, the number of objects it has allocated
  calls,       \* the number of calls the application has made
  trace,       \* what the last action invoked, in order
  op           \* the last action

vars == <<state, bus, node, wrap, deco, microtasks, held, nextRef, calls, trace, op>>

\* The program state the operations below transform.
Pack == [state |-> state, bus |-> bus, node |-> node, wrap |-> wrap, deco |-> deco,
         microtasks |-> microtasks, nextRef |-> nextRef, trace |-> <<>>,
         exc |-> FALSE, held |-> held, ran |-> 0]

\* partial(current) was called: S.ran counts the calls of the updater.
Called(S, upd) == IF upd.kind \in {"fn", "throws"} THEN [S EXCEPT !.ran = @ + 1] ELSE S

Emit(S, e) == [S EXCEPT !.trace = Append(@, e)]

\* throw: an exception leaves the function that raised it (S.exc until a
\* catch or the caller of the action takes it).
Throw(S, s) ==
  Emit([S EXCEPT !.exc = TRUE],
       [ev |-> "throw", src |-> s, via |-> NoHid,
        l |-> UserL("-"), val |-> Prim(0)])

\* An exception thrown by a listener of an EventTarget does not leave
\* dispatchEvent: it is reported to the host and the dispatch goes on.
Report(S, s) ==
  IF S.exc
  THEN Emit([S EXCEPT !.exc = FALSE],
            [ev |-> "report", src |-> s, via |-> NoHid,
             l |-> UserL("-"), val |-> Prim(0)])
  ELSE S

\* store.get()
Get(S, s) == IF s \in Cells THEN S.state[s] ELSE S.node[s].value

\* ------------------------------------------------------------ derived: fn
\* The derivation functions the application passes to derived():
\*   "sum"   (x, y) => x.v + y.v       "diff"  (x, y) => x.v - y.v
\*   "wrap"  s => [s.v]                (a fresh array on every call)
\*   "strict" s => { if (s.v === 1) throw new Error(); return s.v }
\*   "field" s => s.v                  "minus" (p, q) => q - p   (over nodes)
ApplyFn(fnc, args, ref) ==
  CASE fnc = "sum"    -> Prim(Field(args[1].val, "v") + Field(args[2].val, "v"))
    [] fnc = "diff"   -> Prim(Field(args[1].val, "v") - Field(args[2].val, "v"))
    [] fnc = "strict" -> Prim(Field(args[1].val, "v"))
    [] fnc = "field"  -> Prim(Field(args[1].val, "v"))
    [] fnc = "minus"  -> Prim(args[2].val - args[1].val)
    [] OTHER          -> Obj(ref, <<Field(args[1].val, "v")>>)

\* fn throws on these arguments.
FnThrows(fnc, args) == fnc = "strict" /\ Field(args[1].val, "v") = 1

\* The sources read in the reverse order.
DepValues_Reversed(S, n) ==
  [i \in 1..Len(S.node[n].deps) |-> Get(S, S.node[n].deps[Len(S.node[n].deps) + 1 - i])]

\* deps.map(s => s.get())
DepValues(S, n) == [i \in 1..Len(S.node[n].deps) |-> Get(S, S.node[n].deps[i])]

\* fn(...deps.map(s => s.get())): the value, and the state after the call
\* (S.exc when fn threw: there is no value then).
ComputeNode(S, n) ==
  LET v == ApplyFn(S.node[n].fnc, DepValues(S, n), Ref(n, S.nextRef[n]))
      S1 == IF v.ref = NoRef THEN S ELSE [S EXCEPT !.nextRef[n] = @ + 1]
      S2 == Emit(S1, [ev |-> "compute", src |-> n, via |-> NoHid, l |-> DepL(n), val |-> v])
  IN  IF FnThrows(S.node[n].fnc, DepValues(S, n))
      THEN [v |-> S.node[n].value, S |-> Throw(S2, n)]
      ELSE [v |-> v, S |-> S2]

\* ---------------------------------------------- handlers of the decorators
\* What localStorage.getItem(key) returns: null, the empty string, a string
\* that is not JSON, or the JSON text of a record.
Null         == [kind |-> "null",    rec |-> EmptyRec]
EmptyString  == [kind |-> "empty",   rec |-> EmptyRec]
NotJson      == [kind |-> "notjson", rec |-> EmptyRec]

\* JSON.stringify(state)
Stringify(r) == [kind |-> "json", rec |-> r]

\* if (saved): null and the empty string are falsy
Truthy(saved) == saved.kind \notin {"null", "empty"}

\* JSON.parse(saved) returns a value (otherwise it throws a SyntaxError)
Parses(saved) == saved.kind = "json"

\* JSON.parse(saved), when it returns
JsonParse(saved) == saved.rec

\* The listeners withHistory and withPersist install on the store.
HistoryL == [kind |-> "history", id |-> "H"]
PersistL == [kind |-> "persist", id |-> "P"]
DecoHid(d) == [owner |-> d, idx |-> 1]

\* withHistory: state => { if (skipNext) { skipNext = false; return; } future = []; }
HistoryHandler(S) ==
  IF S.deco.skipNext THEN [S EXCEPT !.deco.skipNext = FALSE]
  ELSE [S EXCEPT !.deco.future = <<>>]

\* withPersist: state => { localStorage.setItem(key, JSON.stringify(state)); }
PersistHandler(S, val) ==
  Emit([S EXCEPT !.deco.localStorage = Stringify(val.val)],
       [ev |-> "setItem", src |-> "P", via |-> NoHid, l |-> PersistL, val |-> val])

\* ------------------------------------------------- notification machinery
RECURSIVE Invoke(_, _, _, _, _), ForEach(_, _, _), Dispatch(_, _, _, _, _)
RECURSIVE Act(_, _, _, _), Subscribe(_, _, _, _), RunUnsub(_, _)
RECURSIVE Dispatch_Live(_, _, _, _, _)
RECURSIVE CellSet(_, _, _), BatchSet(_, _)

\* A handler without the equality gate.
Publish_Ungated(S, n, next) ==
  ForEach([S EXCEPT !.node[n].value = next], n, 1)

\* A handler that stores the new value and notifies nobody.
Publish_Silent(S, n, next) ==
  IF ~IsEqual(S.node[n].eq, S.node[n].value, next)
  THEN [S EXCEPT !.node[n].value = next]
  ELSE S

\* if (!isEqual(value, next)) { value = next; listeners.forEach(l => l(value)); }
Publish(S, n, next) ==
  IF ~IsEqual(S.node[n].eq, S.node[n].value, next)
  THEN ForEach([S EXCEPT !.node[n].value = next], n, 1)
  ELSE S

\* const next = fn(...deps.map(s => s.get())); then the equality gate.
Recompute(S, n) ==
  LET c == ComputeNode(S, n) IN IF c.S.exc THEN c.S ELSE Publish(c.S, n, c.v)

\* A batchedDerived handler that queues a microtask for every notification.
SourceHandler_QueueEach(S, n) ==
  IF S.node[n].initializing THEN S
  ELSE IF S.node[n].kind = "derived" THEN Recompute(S, n)
  ELSE [S EXCEPT !.node[n].pending = TRUE,
                 !.microtasks = Append(@, [kind |-> "recompute", id |-> n])]

\* A derived() handler that defers the recomputation to a microtask.
SourceHandler_Deferred(S, n) ==
  IF S.node[n].initializing THEN S
  ELSE IF ~S.node[n].pending
       THEN [S EXCEPT !.node[n].pending = TRUE,
                      !.microtasks = Append(@, [kind |-> "recompute", id |-> n])]
       ELSE S

\* A handler that ignores the initializing flag.
SourceHandler_NoInitGuard(S, n) ==
  IF S.node[n].kind = "derived" THEN Recompute(S, n)
  ELSE IF ~S.node[n].pending
       THEN [S EXCEPT !.node[n].pending = TRUE,
                      !.microtasks = Append(@, [kind |-> "recompute", id |-> n])]
       ELSE S

\* The handler derived() and batchedDerived() subscribe to each source.
SourceHandler(S, n) ==
  IF S.node[n].initializing THEN S
  ELSE IF S.node[n].kind = "derived" THEN Recompute(S, n)
  ELSE IF ~S.node[n].pending
       THEN [S EXCEPT !.node[n].pending = TRUE,
                      !.microtasks = Append(@, [kind |-> "recompute", id |-> n])]
       ELSE S

\* The handler of a subscription a callback makes on cell c: the callbacks
\* drop the unsubscribe function, so none of these handlers is ever removed.
CallbackHid(S, c) ==
  [owner |-> "s",
   idx |-> 1 + Len(SelectSeq(S.bus[c], LAMBDA h : h.hid.owner = "s"))]

\* What a callback of the application does once called by store src with val.
Act(S, src, l, val) ==
  IF l.id \notin {"s"} \cup Unsubscribers \cup Writers \/ ~Triggered(src, val) THEN S
  ELSE IF l.id \in Writers
       THEN LET S1 == Emit(S, [ev |-> "write", src |-> src, via |-> NoHid, l |-> l, val |-> val])
            IN  IF l.id = "w" THEN BatchSet(S1, WriteOf[l.id])
                ELSE CellSet(S1, src, WriteOf[l.id])
  ELSE IF l.id = "s"
       THEN Subscribe(Emit(S, [ev |-> "subscribe", src |-> src, via |-> NoHid,
                               l |-> UserL("g"), val |-> val]),
                      src, UserL("g"), CallbackHid(S, src))
  ELSE IF l.id \in Unsubscribers /\ Target[l.id] <= Len(S.held)
       THEN RunUnsub(Emit(S, [ev |-> "unsubscribe", src |-> src, via |-> NoHid,
                              l |-> l, val |-> val]),
                     S.held[Target[l.id]].u)
  ELSE S

\* One listener called with val by store src (via: the subscription's handler,
\* NoHid for a node, whose Set holds the function itself).
Invoke(S, src, via, l, val) ==
  CASE l.kind = "user" ->
         Act(Emit(S, [ev |-> "call", src |-> src, via |-> via, l |-> l, val |-> val]),
             src, l, val)
    [] l.kind = "history" -> HistoryHandler(S)
    [] l.kind = "persist" -> PersistHandler(S, val)
    [] OTHER -> SourceHandler(S, l.id)

\* An entry of a Set deleted while a forEach over the Set is running: the
\* entry keeps its place until the loop ends, and is not visited.
Deleted == [kind |-> "deleted", id |-> "-"]

\* The forEach over the listeners of n ended: the deleted entries go.
EndForEach(S, n) ==
  [S EXCEPT !.node[n].iterating = @ - 1,
            !.node[n].listeners = IF S.node[n].iterating = 1
                                  THEN SelectSeq(@, LAMBDA x : x # Deleted) ELSE @]

\* listeners.forEach(l => l(value)) from the i-th entry on; value is read at
\* each call, and an exception ends the loop.  The loop runs over the Set
\* itself: it visits the entries added while it runs and passes over those
\* deleted before their turn.
ForEach(S, n, i) ==
  LET S0 == IF i = 1 THEN [S EXCEPT !.node[n].iterating = @ + 1] ELSE S
  IN  IF S0.exc \/ i > Len(S0.node[n].listeners) THEN EndForEach(S0, n)
      ELSE IF S0.node[n].listeners[i] = Deleted THEN ForEach(S0, n, i + 1)
      ELSE ForEach(Invoke(S0, n, NoHid, S0.node[n].listeners[i], S0.node[n].value),
                   n, i + 1)

Registered(S, c, hid) == \E j \in 1..Len(S.bus[c]) : S.bus[c][j].hid = hid

\* A dispatch that walks the list of listeners as it is at each step.
Dispatch_Live(S, c, snap, i, detail) ==
  IF i > Len(S.bus[c]) THEN S
  ELSE Dispatch_Live(Report(Invoke(S, c, S.bus[c][i].hid, S.bus[c][i].l, detail), c),
                     c, snap, i + 1, detail)

\* bus.dispatchEvent(new CustomEvent('change', { detail })): the listeners of
\* the list as it was when the dispatch began, those removed meanwhile skipped;
\* what a listener throws is reported and the next listener is called.
Dispatch(S, c, snap, i, detail) ==
  IF i > Len(snap) THEN S
  ELSE IF Registered(S, c, snap[i].hid)
       THEN Dispatch(Report(Invoke(S, c, snap[i].hid, snap[i].l, detail), c),
                     c, snap, i + 1, detail)
       ELSE Dispatch(S, c, snap, i + 1, detail)

\* A merge in which the previous record wins over the update.
NextState_KeepOld(S, c, upd) ==
  Obj(Ref(c, S.nextRef[c]), Merge(ResolveUpdate(upd, S.state[c].val), S.state[c].val))

\* ------------------------------------------------------------ createStore
\* The record set() assigns to state.
NextState(S, c, upd) ==
  Obj(Ref(c, S.nextRef[c]), Merge(S.state[c].val, ResolveUpdate(upd, S.state[c].val)))

\* A set() that notifies only when a field changed.
CellSet_OnlyOnChange(S, c, upd) ==
  LET next == NextState(S, c, upd)
      S1 == Emit([S EXCEPT !.state[c] = next, !.nextRef[c] = @ + 1],
                 [ev |-> "set", src |-> c, via |-> NoHid, l |-> UserL("-"), val |-> next])
  IN  IF next.val = S.state[c].val THEN S1 ELSE Dispatch(S1, c, S1.bus[c], 1, next)

\* A set() that catches what the updater throws and notifies all the same.
CellSet_Swallows(S, c, upd) ==
  LET next == IF Throws(upd) THEN S.state[c] ELSE NextState(S, c, upd)
      S1 == Emit([S EXCEPT !.state[c] = next, !.nextRef[c] = @ + 1],
                 [ev |-> "set", src |-> c, via |-> NoHid, l |-> UserL("-"), val |-> next])
  IN  Dispatch(S1, c, S1.bus[c], 1, next)

\* set(partial): partial(state) is called inside the expression assigned to
\* state; when it throws, neither the assignment nor dispatchEvent is reached.
CellSet(S, c, upd) ==
  LET S0 == Called(S, upd)
      next == NextState(S, c, upd)
      S1 == Emit([S0 EXCEPT !.state[c] = next, !.nextRef[c] = @ + 1],
                 [ev |-> "set", src |-> c, via |-> NoHid, l |-> UserL("-"), val |-> next])
  IN  IF Throws(upd) THEN Throw(S0, c) ELSE Dispatch(S1, c, S1.bus[c], 1, next)

\* subscribe(fn) of a cell: addEventListener, then fn(state).
CellSubscribe(S, c, l, hid) ==
  LET S1 == [S EXCEPT !.bus[c] = Append(@, [hid |-> hid, l |-> l])]
  IN  Invoke(S1, c, hid, l, S1.state[c])

\* listeners.add(fn): a Set holds a function once.
SetAdd(ls, l) == IF \E i \in 1..Len(ls) : ls[i] = l THEN ls ELSE Append(ls, l)

\* listeners.delete(fn)
SetDelete(ls, l) == SelectSeq(ls, LAMBDA x : x # l)

\* listeners.delete(fn) while a forEach over the Set is running
SetMark(ls, l) == [i \in 1..Len(ls) |-> IF ls[i] = l THEN Deleted ELSE ls[i]]

\* A subscribe() without the immediate call.
NodeSubscribe_NoCatchUp(S, n, l) ==
  [S EXCEPT !.node[n].listeners = SetAdd(@, l)]

\* subscribe(fn) of a node: listeners.add(fn), then fn(value).
NodeSubscribe(S, n, l) ==
  LET S1 == [S EXCEPT !.node[n].listeners = SetAdd(@, l)]
  IN  Invoke(S1, n, NoHid, l, S1.node[n].value)

Subscribe(S, s, l, hid) ==
  IF s \in Cells THEN CellSubscribe(S, s, l, hid) ELSE NodeSubscribe(S, s, l)

\* The function subscribe() returns: for a cell it removes its own handler,
\* for a node it deletes the function from the Set.
Unsubscriber(s, l, hid) == [store |-> s, l |-> l, hid |-> hid]

RunUnsub(S, u) ==
  IF u.store \in Cells
  THEN [S EXCEPT !.bus[u.store] = SelectSeq(@, LAMBDA h : h.hid # u.hid)]
  ELSE [S EXCEPT !.node[u.store].listeners =
                   IF S.node[u.store].iterating > 0 THEN SetMark(@, u.l)
                   ELSE SetDelete(@, u.l)]

\* ------------------------------------------------ derived, batchedDerived
RECURSIVE SubscribeDeps(_, _, _), RunUnsubs(_, _, _)

\* deps.forEach(store => { const unsub = store.subscribe(handler); unsubs.push(unsub); })
SubscribeDeps(S, n, i) ==
  IF i > Len(S.node[n].deps) THEN S
  ELSE LET s   == S.node[n].deps[i]
           hid == DepHid(n, i)
           S1  == Subscribe(S, s, DepL(n), hid)
       IN  SubscribeDeps([S1 EXCEPT !.node[n].unsubs = Append(@, Unsubscriber(s, DepL(n), hid))],
                         n, i + 1)

\* derived(stores, fn, isEqual) / batchedDerived(stores, fn, isEqual)
CreateNode(S, n) ==
  LET c  == ComputeNode(S, n)
      S1 == [c.S EXCEPT !.node[n].created = TRUE, !.node[n].initializing = TRUE,
                        !.node[n].value = c.v]
      S2 == SubscribeDeps(S1, n, 1)
  IN  IF c.S.exc THEN c.S ELSE [S2 EXCEPT !.node[n].initializing = FALSE]

\* unsubs.forEach(fn => fn())
RunUnsubs(S, us, i) ==
  IF i > Len(us) THEN S ELSE RunUnsubs(RunUnsub(S, us[i]), us, i + 1)

\* A destroy() that keeps the handlers on the sources.
Destroy_ListenersOnly(S, n) == [S EXCEPT !.node[n].listeners = <<>>]

\* destroy()
Destroy(S, n) ==
  [RunUnsubs(S, S.node[n].unsubs, 1) EXCEPT !.node[n].listeners = <<>>]

\* A deferred recomputation that notifies whatever it computed.
DeferredRecompute_Ungated(S, n) ==
  LET c == ComputeNode([S EXCEPT !.node[n].pending = FALSE], n)
  IN  ForEach([c.S EXCEPT !.node[n].value = c.v], n, 1)

\* The microtask batchedDerived's handler queued.
DeferredRecompute(S, n) ==
  Recompute([S EXCEPT !.node[n].pending = FALSE], n)

\* A get() that ignores the queued updates.
BatchGet_Underlying(S) == S.state[S.wrap.store].val

\* ----------------------------------------------------------- withBatching
\* store.set(upd) on the store a decorator was given: the cell itself, or
\* the cell behind withDistinct, withFreeze or withBatching.
RECURSIVE StoreSet(_, _, _, _)

\* get: () => ({ ...store.get(), ...queued })
BatchGet(S) == Merge(S.state[S.wrap.store].val, S.wrap.queued)

\* A set() that queues a microtask on every call.
BatchSet_AlwaysSchedules(S, upd) ==
  LET update == ResolveUpdate(upd, BatchGet(S))
  IN  [S EXCEPT !.wrap.queued = Merge(@, update), !.wrap.log = Append(@, update),
                !.wrap.raw = Append(@, upd), !.wrap.batching = TRUE,
                !.microtasks = Append(@, [kind |-> "flush", id |-> "W"])]

\* A set() that resolves an updater against the cell's record alone.
BatchSet_StaleUpdater(S, upd) ==
  LET update == ResolveUpdate(upd, S.state[S.wrap.store].val)
      S1 == [S EXCEPT !.wrap.queued = Merge(@, update), !.wrap.log = Append(@, update),
                      !.wrap.raw = Append(@, upd)]
  IN  IF ~S1.wrap.batching
      THEN [S1 EXCEPT !.wrap.batching = TRUE,
                      !.microtasks = Append(@, [kind |-> "flush", id |-> "W"])]
      ELSE S1

\* set(partial) of the wrapper; wrap.log (history) keeps the resolved updates
\* queued since the last flush, wrap.raw (history) the arguments of set().
BatchSet(S, upd) ==
  LET update == ResolveUpdate(upd, BatchGet(S))
      S1 == [Called(S, upd) EXCEPT !.wrap.queued = Merge(@, update),
                                   !.wrap.log = Append(@, update),
                                   !.wrap.raw = Append(@, upd)]
  IN  IF ~S1.wrap.batching
      THEN [S1 EXCEPT !.wrap.batching = TRUE,
                      !.microtasks = Append(@, [kind |-> "flush", id |-> "W"])]
      ELSE S1

\* A flush that writes to the cell itself, whatever store the wrapper was given.
Flush_Direct(S) ==
  LET S1 == CellSet(S, S.wrap.store, [kind |-> "partial", rec |-> S.wrap.queued])
  IN  [S1 EXCEPT !.wrap.queued = EmptyRec, !.wrap.batching = FALSE, !.wrap.log = <<>>,
                 !.wrap.raw = <<>>]

\* The microtask: store.set(queued); queued = {}; batching = false.
Flush(S) ==
  LET S1 == StoreSet(S, S.wrap.inner, S.wrap.store, [kind |-> "partial", rec |-> S.wrap.queued])
  IN  [S1 EXCEPT !.wrap.queued = EmptyRec, !.wrap.batching = FALSE, !.wrap.log = <<>>,
                 !.wrap.raw = <<>>]

\* ----------------------------------------------------------- withDistinct
\* An equality that only looks at the keys of a.
ShallowEqual_NoKeyCount(a, b) ==
  \/ a.ref = b.ref
  \/ \A k \in DOMAIN a.val : k \in DOMAIN b.val /\ a.val[k] = b.val[k]

\* shallowEqual(a, b): a === b, or as many keys and Object.is(a[k], b[k]) for
\* every key of a (b[k] is undefined for a key b lacks).
ShallowEqual(a, b) ==
  \/ a.ref = b.ref
  \/ /\ Cardinality(DOMAIN a.val) = Cardinality(DOMAIN b.val)
     /\ \A k \in DOMAIN a.val : k \in DOMAIN b.val /\ a.val[k] = b.val[k]

\* set(partial) of withDistinct(store): next is a fresh object of the wrapper.
DistinctSet(S, c, upd) ==
  LET current == Get(S, c)
      next    == Obj(Ref("D", 0), Merge(current.val, ResolveUpdate(upd, current.val)))
      S1      == Called(S, upd)
  IN  IF ~ShallowEqual(current, next) THEN CellSet(S1, c, upd) ELSE S1

\* -------------------------------------------------------------- withReset
\* withReset(store): const initial = { ...store.get() }
ResetWrap(S, c) == [S EXCEPT !.deco.initial = S.state[c].val]

\* reset: () => store.set(initial)
Reset(S, c) == CellSet(S, c, [kind |-> "partial", rec |-> S.deco.initial])

\* ------------------------------------------------------------ withHistory
\* withHistory(store, maxSize): past = [], future = [], skipNext = false, and
\* the subscription that tracks the changes (called at once by subscribe).
HistoryWrap(S, c, m) ==
  CellSubscribe([S EXCEPT !.deco.past = <<>>, !.deco.future = <<>>,
                          !.deco.skipNext = FALSE, !.deco.maxSize = m],
                c, HistoryL, DecoHid("H"))

\* A set() that does not bound the past.
HistorySet_Unbounded(S, c, upd) ==
  CellSet([S EXCEPT !.deco.past = Append(@, S.state[c]), !.deco.future = <<>>], c, upd)

\* A set() that saves the record after the write.
HistorySet_PushAfter(S, c, upd) ==
  LET S1 == CellSet([S EXCEPT !.deco.future = <<>>], c, upd)
      pushed == Append(S1.deco.past, S1.state[c])
  IN  [S1 EXCEPT !.deco.past = IF Len(pushed) > S.deco.maxSize THEN Tail(pushed) ELSE pushed]

\* set(partial): past.push(store.get()); if (past.length > maxSize)
\* past.shift(); future = []; store.set(partial)
HistorySet(S, c, upd) ==
  LET pushed == Append(S.deco.past, S.state[c])
      S1 == [S EXCEPT !.deco.past = IF Len(pushed) > S.deco.maxSize THEN Tail(pushed) ELSE pushed,
                      !.deco.future = <<>>]
  IN  StoreSet(S1, S.deco.inner, c, upd)

\* array.pop(): the last element, and the rest
Last(q)    == q[Len(q)]
Front(q)   == SubSeq(q, 1, Len(q) - 1)

\* An undo() that does not announce its write to the tracking subscription.
Undo_NoSkip(S, c) ==
  IF S.deco.past = <<>> THEN S
  ELSE CellSet([S EXCEPT !.deco.future = Append(@, S.state[c]), !.deco.past = Front(@)],
               c, [kind |-> "partial", rec |-> Last(S.deco.past).val])

\* undo(): if (past.length === 0) return; future.push(store.get());
\* skipNext = true; store.set(past.pop())
Undo(S, c) ==
  IF S.deco.past = <<>> THEN S
  ELSE StoreSet([S EXCEPT !.deco.future = Append(@, S.state[c]), !.deco.skipNext = TRUE,
                          !.deco.past = Front(@)],
                S.deco.inner, c, [kind |-> "partial", rec |-> Last(S.deco.past).val])

\* redo(): if (future.length === 0) return; past.push(store.get());
\* skipNext = true; store.set(future.pop())
Redo(S, c) ==
  IF S.deco.future = <<>> THEN S
  ELSE StoreSet([S EXCEPT !.deco.past = Append(@, S.state[c]), !.deco.skipNext = TRUE,
                          !.deco.future = Front(@)],
                S.deco.inner, c, [kind |-> "partial", rec |-> Last(S.deco.future).val])

\* canUndo: () => past.length > 0;  canRedo: () => future.length > 0
CanUndo(d) == Len(d.past) > 0
CanRedo(d) == Len(d.future) > 0

\* ------------------------------------------------------------ withPersist
\* console.warn(`Failed to parse persisted state for "${key}"`, e)
Warn(S, c, saved) ==
  Emit(S, [ev |-> "warn", src |-> c, via |-> NoHid, l |-> PersistL, val |-> saved])

\* A withPersist that loads the saved record and never subscribes.
Persist_LoadOnly(S, c) ==
  LET saved == S.deco.localStorage
  IN  IF Truthy(saved)
      THEN IF Parses(saved)
           THEN CellSet(S, c, [kind |-> "partial", rec |-> JsonParse(saved)])
           ELSE Warn(S, c, saved)
      ELSE S

\* withPersist(store, key): saved = localStorage.getItem(key); if (saved) try
\* { store.set(JSON.parse(saved)) } catch (e) { console.warn(...) }; then
\* store.subscribe(state => localStorage.setItem(key, JSON.stringify(state)))
Persist(S, c) ==
  LET saved == S.deco.localStorage
      S1 == IF Truthy(saved)
            THEN IF Parses(saved)
                 THEN StoreSet(S, S.deco.given, c, [kind |-> "partial", rec |-> JsonParse(saved)])
                 ELSE Warn(S, c, saved)
            ELSE S
  IN  CellSubscribe(S1, c, PersistL, DecoHid("P"))

\* ------------------------------------------------------------- withFreeze
\* The field o of a record holds an object, the other fields hold numbers.
\* The object and the objects nested in it, one inside the other, are the
\* sequence of their frozen flags, the outermost first: <<TRUE, FALSE>> is
\* Object.freeze({ inner: {} }).
Chains == UNION {[1..d -> BOOLEAN] : d \in 1..MaxDepth}

\* v && typeof v === 'object'
IsObjectField(k) == k = "o"

RECURSIVE FreezeValue(_)
\* if (... && !Object.isFrozen(v)) deepFreeze(v): an object found frozen is
\* left as it is, and what it holds is not visited.
FreezeValue(ch) ==
  IF Len(ch) = 0 \/ Head(ch) THEN ch ELSE <<TRUE>> \o FreezeValue(Tail(ch))

\* deepFreeze(store.get()): Object.freeze(obj), then the values of obj.
DeepFreeze(S, c) ==
  [S EXCEPT !.deco.frozen = @ \cup {S.state[c].ref},
            !.state[c].val = [k \in DOMAIN @ |->
                                IF IsObjectField(k) THEN FreezeValue(@[k]) ELSE @[k]]]

\* withFreeze(store): deepFreeze(store.get())
FreezeWrap(S, c) == DeepFreeze(S, c)

\* set(partial) { store.set(partial); deepFreeze(store.get()); }
FreezeSet(S, c, upd) ==
  LET S1 == CellSet(S, c, upd) IN IF S1.exc THEN S1 ELSE DeepFreeze(S1, c)

\* ---------------------------------------------------------------- stacking
StoreSet(S, kind, c, upd) ==
  CASE kind = "distinct" -> DistinctSet(S, c, upd)
    [] kind = "freeze"   -> FreezeSet(S, c, upd)
    [] kind = "batching" -> BatchSet(S, upd)
    [] OTHER             -> CellSet(S, c, upd)

\* ---------------------------------------------------------- configurations
NodeConfigs ==
  { [kind |-> "derived",        deps |-> <<"A", "B">>, fnc |-> "diff", eq |-> "is"],
    [kind |-> "derived",        deps |-> <<"A">>,      fnc |-> "wrap", eq |-> "is"],
    [kind |-> "derived",        deps |-> <<"A">>,      fnc |-> "wrap", eq |-> "contents"],
    [kind |-> "batchedDerived", deps |-> <<"A", "B">>, fnc |-> "sum",  eq |-> "is"] }

NewNode(cfg) ==
  [created |-> FALSE, destroyed |-> FALSE, kind |-> cfg.kind, deps |-> cfg.deps,
   fnc |-> cfg.fnc, eq |-> cfg.eq, value |-> Prim(0), listeners |-> <<>>,
   unsubs |-> <<>>, pending |-> FALSE, initializing |-> FALSE, iterating |-> 0]

NoWrap == [created |-> FALSE, store |-> "A", batching |-> FALSE,
           queued |-> EmptyRec, log |-> <<>>, raw |-> <<>>, inner |-> "cell"]

\* withBatching(store): let batching = false; let queued = {}
NewWrap(c) == [created |-> TRUE, store |-> c, batching |-> FALSE,
               queued |-> EmptyRec, log |-> <<>>, raw |-> <<>>, inner |-> "cell"]

\* No decorator with variables of its own was applied.  writes, undos and
\* pure are history: the records held before each write of a run of writes
\* through withHistory, the undo() calls that followed it, and whether the
\* calls made so far were such a run.  frozen: the records Object.freeze was
\* applied to.  inner: the store withHistory was given (the cell, or the cell
\* behind withDistinct or withFreeze); given: the store withPersist was given.
NoDeco ==
  [initial |-> EmptyRec,
   past |-> <<>>, future |-> <<>>, skipNext |-> FALSE, maxSize |-> 0,
   localStorage |-> Null, persisted |-> FALSE,
   writes |-> <<>>, undos |-> 0, pure |-> TRUE,
   frozen |-> {},
   inner |-> "cell", given |-> "cell"]

\* createStore(initial): let state = initial
CreateStore(c, initial) == Obj(Ref(c, 0), initial)

\* createStore(R): the initial records have the field v, and may have w.
InitRecords == {r \in Records : "v" \in DOMAIN r}

\* The program state once a = createStore(r) and b = createStore({ v: 0 })
\* have been called, as a value.
Blank(r, cfg, w) ==
  [state |-> [c \in Cells |-> CreateStore(c, IF c = "A" THEN r ELSE [v |-> 0])],
   bus |-> [c \in Cells |-> <<>>],
   node |-> [n \in Nodes |-> NewNode(cfg)],
   wrap |-> w,
   deco |-> NoDeco,
   microtasks |-> <<>>,
   nextRef |-> [s \in Cells \cup Nodes |-> IF s \in Cells THEN 1 ELSE 0],
   trace |-> <<>>,
   exc |-> FALSE,
   held |-> <<>>,
   ran |-> 0]

\* ---------------------------------------------------------------- actions
Stores == Cells \cup Nodes \cup {"W"}

\* What get() of every store returns before the action (W: the wrapper).
Before(S) ==
  [s \in Stores |-> IF s \in Cells THEN S.state[s]
                    ELSE IF s \in Nodes THEN S.node[s].value
                    ELSE BatchGet(S)]

\* The call made, what get() returned and what the decorators held before it.
LastOp(S0, name, s, arg) ==
  [name |-> name, store |-> s, arg |-> arg, before |-> Before(S0),
   was |-> [wrap |-> S0.wrap, deco |-> S0.deco]]

\* The exception left the action: its caller has it.
Uncaught ==
  [ev |-> "uncaught", src |-> "-", via |-> NoHid,
   l |-> UserL("-"), val |-> Prim(0)]

\* The trace of an action, closed by Uncaught when it ended in an exception.
Outcome(S) == IF S.exc THEN Append(S.trace, Uncaught) ELSE S.trace

\* The last action, with the number of times it called the updater.
Done(o, S) ==
  [name |-> o.name, store |-> o.store, arg |-> o.arg, before |-> o.before, was |-> o.was,
   ran |-> S.ran]

Commit(S, name, s, arg) ==
  /\ state' = S.state /\ bus' = S.bus /\ node' = S.node /\ wrap' = S.wrap
  /\ deco' = S.deco
  /\ microtasks' = S.microtasks /\ nextRef' = S.nextRef /\ trace' = Outcome(S)
  /\ op' = Done(LastOp(Pack, name, s, arg), S)

\* The state after the stores have been constructed.
Start(S) ==
  /\ state = S.state /\ bus = S.bus /\ node = S.node /\ wrap = S.wrap
  /\ deco = S.deco
  /\ microtasks = S.microtasks /\ nextRef = S.nextRef /\ trace = Outcome(S)
  /\ op = Done(LastOp(S, "create", "-", 0), S)
  /\ held = <<>>
  /\ calls = 0

\* The application may make one more call.
MayCall == calls < MaxCalls /\ calls' = calls + 1

\* The updater keeps the field within the values modelled.
InRange(upd, cur) == upd.kind = "fn" => Field(cur, "v") < MaxVal

\* store.set(upd) on a cell
Set(c, upd) ==
  /\ MayCall
  /\ InRange(upd, state[c].val)
  /\ Commit(CellSet(Pack, c, upd), "set", c, upd)
  /\ UNCHANGED held

\* store.subscribe(f) on a cell or a node; the application keeps the
\* unsubscribe function.  The callbacks are interchangeable: g is the second
\* one the application uses.
DoSubscribe(s, f) ==
  /\ MayCall
  /\ s \in Nodes => node[s].created
  /\ f = "g" => \E i \in 1..Len(held) : held[i].u.l = UserL("f")
  /\ LET hid == UserHid(Len(held) + 1) IN
       /\ Commit(Subscribe(Pack, s, UserL(f), hid), "subscribe", s, f)
       /\ held' = Append(held, [u |-> Unsubscriber(s, UserL(f), hid), called |-> FALSE])

\* A call of the k-th unsubscribe function (the first, or a repeated one).
DoUnsubscribe(k) ==
  /\ MayCall
  /\ k \in 1..Len(held)
  /\ Commit(RunUnsub(Pack, held[k].u), "unsubscribe", held[k].u.store, k)
  /\ held' = [held EXCEPT ![k].called = TRUE]

\* node.destroy() (the first call, or a repeated one); node[n].destroyed
\* (history) records that it was called.
DoDestroy(n) ==
  /\ MayCall
  /\ node[n].created
  /\ Commit([Destroy(Pack, n) EXCEPT !.node[n].destroyed = TRUE], "destroy", n, 0)
  /\ UNCHANGED held

\* The microtask at the head of the queue runs.
RunMicrotask ==
  /\ microtasks # <<>>
  /\ LET t  == Head(microtasks)
         S0 == [Pack EXCEPT !.microtasks = Tail(@)]
     IN  IF t.kind = "recompute"
         THEN Commit(DeferredRecompute(S0, t.id), "recompute", t.id, 0)
         ELSE Commit(Flush(S0), "flush", wrap.store, wrap.log)
  /\ UNCHANGED <<held, calls>>

\* wrapper.set(upd) on withBatching(store)
DoBatchSet(upd) ==
  /\ MayCall
  /\ wrap.created
  /\ InRange(upd, BatchGet(Pack))
  /\ Commit(BatchSet(Pack, upd), "batchSet", "W", upd)
  /\ UNCHANGED held

\* wrapper.set(upd) on withDistinct(store)
DoDistinctSet(upd) ==
  /\ MayCall
  /\ InRange(upd, state["A"].val)
  /\ Commit(DistinctSet(Pack, "A", upd), "distinctSet", "A", upd)
  /\ UNCHANGED held

\* wrapper.reset() on withReset(store)
DoReset ==
  /\ MayCall
  /\ Commit(Reset(Pack, "A"), "reset", "A", 0)
  /\ UNCHANGED held

\* History of the calls on a withHistory wrapper (deco.writes, deco.undos,
\* deco.pure): a run of set() calls followed by undo() calls.
Track(S, d0, call, prev) ==
  LET pure == d0.pure /\ (call = "undo" \/ (call = "set" /\ d0.undos = 0))
  IN  [S EXCEPT !.deco.pure = pure,
                !.deco.writes = IF ~pure THEN <<>>
                                ELSE IF call = "set" THEN Append(d0.writes, prev) ELSE d0.writes,
                !.deco.undos = IF pure /\ call = "undo" THEN d0.undos + 1 ELSE 0]

\* wrapper.set(upd) on withHistory(store)
DoHistSet(upd) ==
  /\ MayCall
  /\ InRange(upd, state["A"].val)
  /\ Commit(Track(HistorySet(Pack, "A", upd), deco, "set", state["A"].val), "histSet", "A", upd)
  /\ UNCHANGED held

\* wrapper.undo()
DoUndo ==
  /\ MayCall
  /\ Commit(Track(Undo(Pack, "A"), deco, "undo", state["A"].val), "undo", "A", 0)
  /\ UNCHANGED held

\* wrapper.redo()
DoRedo ==
  /\ MayCall
  /\ Commit(Track(Redo(Pack, "A"), deco, "redo", state["A"].val), "redo", "A", 0)
  /\ UNCHANGED held

\* withPersist(store, key), called once; deco.persisted (history) records
\* that it has returned.
DoPersist ==
  /\ MayCall
  /\ ~deco.persisted
  /\ Commit([Persist(Pack, "A") EXCEPT !.deco.persisted = TRUE], "persist", "A", deco.localStorage)
  /\ UNCHANGED held

\* wrapper.set(upd) on withFreeze(store)
DoFreezeSet(upd) ==
  /\ MayCall
  /\ InRange(upd, state["A"].val)
  /\ Commit(FreezeSet(Pack, "A", upd), "freezeSet", "A", upd)
  /\ UNCHANGED held

\* n = derived(...) or batchedDerived(...), called once, over the cells as
\* they are then.
DoCreateNode(n) ==
  /\ MayCall
  /\ ~node[n].created
  /\ Commit(CreateNode(Pack, n), "createNode", n, 0)
  /\ UNCHANGED held

\* set(upd) on the store withHistory was given, not through withHistory.
DoInnerSet(upd) ==
  /\ MayCall
  /\ InRange(upd, state["A"].val)
  /\ Commit(StoreSet(Pack, deco.inner, "A", upd), "innerSet", "A", upd)
  /\ UNCHANGED held

\* --------------------------------------------------------- specifications
\* Two cells and a derivation node over them:
\* a = createStore(r); b = createStore({ v: 0 }); n = derived([...], fn) or
\* batchedDerived([...], fn), as configured.
Init ==
  \E r \in [{"v"} -> Vals], cfg \in NodeConfigs :
    Start(CreateNode(Blank(r, cfg, NoWrap), "N"))

Next ==
  \/ \E c \in Cells : \E upd \in SourceUpdates(c) : Set(c, upd)
  \/ \E s \in {"A", "N"}, f \in Fns : DoSubscribe(s, f)
  \/ \E k \in 1..Len(held) : DoUnsubscribe(k)
  \/ \E n \in Nodes : DoDestroy(n)
  \/ RunMicrotask

Spec == Init /\ [][Next]_vars

\* One cell, written and subscribed to: a = createStore(r).
InitCell ==
  \E r \in InitRecords : Start(Blank(r, CHOOSE cfg \in NodeConfigs : TRUE, NoWrap))

NextCell ==
  \/ \E upd \in Updates : Set("A", upd)
  \/ \E f \in Fns : DoSubscribe("A", f)
  \/ \E k \in 1..Len(held) : DoUnsubscribe(k)

SpecCell == InitCell /\ [][NextCell]_vars

\* One cell behind withBatching: w = withBatching(createStore(r)); the
\* application writes through the wrapper and, at times, to the cell itself.
InitBatching ==
  \E r \in InitRecords : Start(Blank(r, CHOOSE cfg \in NodeConfigs : TRUE, NewWrap("A")))

NextBatching ==
  \/ \E upd \in SourceUpdates("A") : DoBatchSet(upd)
  \/ \E upd \in SourceUpdates("B") : Set("A", upd)
  \/ \E f \in Fns : DoSubscribe("A", f)
  \/ \E k \in 1..Len(held) : DoUnsubscribe(k)
  \/ RunMicrotask

SpecBatching == InitBatching /\ [][NextBatching]_vars

\* The same, every write going through the wrapper.
NextBatchOnly ==
  \/ \E upd \in SourceUpdates("A") : DoBatchSet(upd)
  \/ \E f \in Fns : DoSubscribe("A", f)
  \/ \E k \in 1..Len(held) : DoUnsubscribe(k)
  \/ RunMicrotask

SpecBatchOnly == InitBatching /\ [][NextBatchOnly]_vars

\* ------------------------------------------------------------ observation
\* The listener invocations of the last action, in order.
CallsIn(tr) == SelectSeq(tr, LAMBDA e : e.ev = "call")

\* Those made by store s.
CallsFrom(tr, s) == SelectSeq(tr, LAMBDA e : e.ev = "call" /\ e.src = s)

\* The invocations of the derivation function in the last action.
Computes(tr) == SelectSeq(tr, LAMBDA e : e.ev = "compute")

\* The subscriptions on s whose unsubscribe function was never called, in
\* subscription order.
ActiveOn(s) == SelectSeq(held, LAMBDA h : h.u.store = s /\ ~h.called)

\* ------------------------------------------------------------- properties
\* C1: get() returns the record passed to createStore until the first write;
\* each set() leaves the shallow merge of the previous record with the
\* resolved update (keys of the update overwrite, the others are kept), as a
\* record whose identity differs from the previous one.
C1_SetMerges ==
  LET prev == op.before["A"]
      cur  == state["A"]
  IN  /\ nextRef["A"] = 1 => cur.ref = Ref("A", 0)
      /\ op.name # "set" => cur = prev
      /\ op.name = "set" =>
           LET u == IF op.arg.kind = "fn" THEN [v |-> prev.val["v"] + 1] ELSE op.arg.rec
           IN  /\ DOMAIN cur.val = (DOMAIN prev.val) \cup (DOMAIN u)
               /\ \A k \in DOMAIN cur.val :
                    cur.val[k] = IF k \in DOMAIN u THEN u[k] ELSE prev.val[k]
               /\ cur.ref # prev.ref

\* A second write, by an updater, on a record with a key the updater leaves alone.
C1_Witness ==
  /\ op.name = "set" /\ op.arg.kind = "fn"
  /\ nextRef["A"] = 3
  /\ "w" \in DOMAIN state["A"].val
  /\ state["A"].val["v"] = MaxVal

\* C2: every set() on a cell invokes, within the call, each listener that is
\* subscribed exactly once with the new record, in subscription order; also
\* when the merge leaves every field as it was.
C2_SetNotifiesAll ==
  op.name = "set" =>
    LET cs   == CallsIn(trace)
        subs == ActiveOn(op.store)
    IN  /\ Len(cs) = Len(subs)
        /\ \A i \in 1..Len(cs) :
             /\ cs[i].src = op.store
             /\ cs[i].l = subs[i].u.l /\ cs[i].via = subs[i].u.hid
             /\ cs[i].val = state[op.store]
        /\ state[op.store].ref # op.before[op.store].ref

\* A write that changes no field, with two subscribers.
C2_Witness ==
  /\ op.name = "set"
  /\ state["A"].val = op.before["A"].val
  /\ Len(ActiveOn("A")) = 2
  /\ ActiveOn("A")[1].u.l # ActiveOn("A")[2].u.l

C4_RepeatedUnsubscribeChangesNothing ==
  [][(op'.name = "unsubscribe" /\ held[op'.arg].called) => (bus' = bus /\ node' = node)]_vars

\* C5: a derived node with the default equality that was not destroyed holds
\* the derivation function applied to the current records of all its
\* sources, in the order the sources were given.
C5_DerivedIsComputeOfSources ==
  \A n \in Nodes :
    (node[n].kind = "derived" /\ node[n].eq = "is" /\ ~node[n].destroyed) =>
      LET args == [i \in 1..Len(node[n].deps) |-> state[node[n].deps[i]]]
      IN  node[n].value.val = ApplyFn(node[n].fnc, args, node[n].value.ref).val

\* Both sources of (x, y) => x.v - y.v were written, the second one last.
C5_Witness ==
  /\ node["N"].kind = "derived" /\ node["N"].fnc = "diff" /\ ~node["N"].destroyed
  /\ op.name = "set" /\ op.store = "B" /\ nextRef["A"] > 1
  /\ state["A"].val["v"] = 1 /\ state["B"].val["v"] = 1
  /\ node["N"].value = Prim(0)

\* The callback f has a subscription on s that was never unsubscribed.
Subscribed(s, f) ==
  \E k \in 1..Len(held) : held[k].u = Unsubscriber(s, UserL(f), UserHid(k)) /\ ~held[k].called

\* No unsubscribe function for f on s was ever called.
NeverLeft(s, f) ==
  \A k \in 1..Len(held) : held[k].u = Unsubscriber(s, UserL(f), UserHid(k)) => ~held[k].called

C7_DestroyedDerivedIsSilent ==
  \A n \in Nodes :
    (node[n].kind = "derived" /\ node[n].destroyed) =>
      /\ node[n].value = op.before[n]
      /\ op.name = "set" => CallsFrom(trace, n) = <<>>

\* A source of a destroyed node changes; the node had a subscriber and now
\* holds a value that is not the function of its sources.
C7_Witness ==
  /\ node["N"].kind = "derived" /\ node["N"].fnc = "diff" /\ node["N"].destroyed
  /\ op.name = "set" /\ op.store = "A"
  /\ state["A"].val["v"] # op.before["A"].val["v"]
  /\ \E k \in 1..Len(held) : held[k].u.store = "N"
  /\ node["N"].value.val # state["A"].val["v"] - state["B"].val["v"]

\* C8: once destroy() was called on a derivation node, no action changes the
\* value get() returns or invokes the derivation function, and the node
\* invokes a listener only for the catch-up call of a subscribe().
C8_DestroyedNodeIsFrozen ==
  \A n \in Nodes :
    node[n].destroyed =>
      /\ node[n].value = op.before[n]
      /\ Computes(trace) = <<>>
      /\ op.name # "subscribe" => CallsFrom(trace, n) = <<>>

\* The records us merged over r one after the other, in order.
RECURSIVE FoldMerge(_, _)
FoldMerge(r, us) == IF us = <<>> THEN r ELSE FoldMerge(Merge(r, Head(us)), Tail(us))

\* The flushes of withBatching waiting in the microtask queue.
FlushTasks == SelectSeq(microtasks, LAMBDA t : t.kind = "flush")

RECURSIVE PlainFold(_, _)
PlainFold(r, us) ==
  IF us = <<>> THEN r
  ELSE PlainFold(Merge(r, IF Head(us).kind = "fn" THEN [v |-> r["v"] + 1] ELSE Head(us).rec),
                 Tail(us))

\* C11: when every write of a turn goes through the withBatching wrapper,
\* the cell's record after the flush is the record a plain cell would hold
\* after the same set() calls made one by one (updaters included), and so is
\* the wrapper's get() before the flush.
C11_BatchedEqualsPlain ==
  /\ BatchGet(Pack) = PlainFold(state["A"].val, wrap.raw)
  /\ op.name = "flush" =>
       state["A"].val = PlainFold(op.before["A"].val, op.was.wrap.raw)

\* A turn of a partial write followed by two updater writes is flushed.
C11_Witness ==
  /\ op.name = "flush"
  /\ Len(op.was.wrap.raw) = 3
  /\ op.was.wrap.raw[1].kind = "partial"
  /\ op.was.wrap.raw[2] = Updater /\ op.was.wrap.raw[3] = Updater
  /\ state["A"].val["v"] = 2

\* One cell behind withDistinct: d = withDistinct(createStore(r)).
NextDistinct ==
  \/ \E upd \in Updates : DoDistinctSet(upd)
  \/ \E f \in Fns : DoSubscribe("A", f)
  \/ \E k \in 1..Len(held) : DoUnsubscribe(k)

SpecDistinct == InitCell /\ [][NextDistinct]_vars

\* C12: set() of withDistinct writes to the wrapped cell exactly when the
\* current record merged with the resolved update differs from the current
\* record in its number of keys or in the value of a key; otherwise the cell
\* keeps its record, identity included, and nothing is invoked.
C12_DistinctForwardsIffChanged ==
  op.name = "distinctSet" =>
    LET prev == op.before["A"]
        u    == IF op.arg.kind = "fn" THEN [v |-> prev.val["v"] + 1] ELSE op.arg.rec
        cand == [k \in (DOMAIN prev.val) \cup (DOMAIN u) |->
                   IF k \in DOMAIN u THEN u[k] ELSE prev.val[k]]
        same == /\ Cardinality(DOMAIN cand) = Cardinality(DOMAIN prev.val)
                /\ \A k \in DOMAIN prev.val : cand[k] = prev.val[k]
        sets == SelectSeq(trace, LAMBDA e : e.ev = "set")
    IN  IF same
        THEN state["A"] = prev /\ trace = <<>>
        ELSE /\ Len(sets) = 1 /\ sets[1].src = "A"
             /\ state["A"].val = cand /\ state["A"].ref # prev.ref
             /\ Len(CallsIn(trace)) = Len(ActiveOn("A"))
             /\ \A i \in 1..Len(CallsIn(trace)) : CallsIn(trace)[i].val = state["A"]

\* A write of the values the record already has, with a subscriber: nothing
\* is invoked.
C12_Witness ==
  /\ op.name = "distinctSet" /\ op.arg.kind = "partial" /\ op.arg.rec # EmptyRec
  /\ nextRef["A"] > 1
  /\ Len(ActiveOn("A")) = 1
  /\ trace = <<>>

\* One cell behind withReset: s = withReset(createStore(r)).
InitReset ==
  \E r \in InitRecords :
    Start(ResetWrap(Blank(r, CHOOSE cfg \in NodeConfigs : TRUE, NoWrap), "A"))

NextReset ==
  \/ \E upd \in Updates : Set("A", upd)
  \/ DoReset
  \/ \E f \in Fns : DoSubscribe("A", f)
  \/ \E k \in 1..Len(held) : DoUnsubscribe(k)

SpecReset == InitReset /\ [][NextReset]_vars

\* C13: after reset() the cell's record is the record captured when
\* withReset was called, with exactly its keys, and each subscriber was
\* invoked once with it.
C13_ResetRestoresCaptured ==
  op.name = "reset" =>
    /\ state["A"].val = deco.initial
    /\ Len(CallsIn(trace)) = Len(ActiveOn("A"))
    /\ \A i \in 1..Len(CallsIn(trace)) : CallsIn(trace)[i].val = state["A"]

\* One cell behind withHistory: h = withHistory(createStore(r), m).
InitHistory ==
  \E r \in InitRecords, m \in 1..MaxSize :
    Start(HistoryWrap(Blank(r, CHOOSE cfg \in NodeConfigs : TRUE, NoWrap), "A", m))

NextHistory ==
  \/ \E upd \in SourceUpdates("A") : DoHistSet(upd)
  \/ DoUndo
  \/ DoRedo

SpecHistory == InitHistory /\ [][NextHistory]_vars

\* C14: set(U) through withHistory followed by undo() leaves get() equal to
\* the record held before the set, and canRedo() true.
C14_UndoRestores ==
  [][(op.name = "histSet" /\ op'.name = "undo") =>
       (state'["A"].val = op.before["A"].val /\ CanRedo(deco'))]_vars

\* C15: with a non-empty past, undo() followed at once by redo() leaves
\* get() equal to the record held before the undo, and canUndo() and
\* canRedo() as they were before the undo.
C15_UndoRedoRoundTrip ==
  [][(op.name = "undo" /\ CanUndo(op.was.deco) /\ op'.name = "redo") =>
       /\ state'["A"].val = op.before["A"].val
       /\ CanUndo(deco') = CanUndo(op.was.deco)
       /\ CanRedo(deco') = CanRedo(op.was.deco)]_vars

\* The third call is a redo() that follows an undo() of a write that changed
\* the record: the record is the written one again.
C15_Witness ==
  /\ calls = 3 /\ op.name = "redo" /\ CanRedo(op.was.deco)
  /\ state["A"].val # op.before["A"].val
  /\ deco.past # <<>> /\ deco.future = <<>>

\* C16: the past and the future never hold more than maxSize snapshots; a
\* set() on a full past drops its oldest snapshot and appends the record
\* held before the write.
C16_HistoryBounded ==
  /\ Len(deco.past) <= deco.maxSize
  /\ Len(deco.future) <= deco.maxSize
  /\ op.name = "histSet" =>
       LET was == op.was.deco.past
       IN  deco.past = Append(IF Len(was) >= deco.maxSize THEN Tail(was) ELSE was,
                              op.before["A"])

\* A third write with maxSize = 2: the oldest snapshot is dropped.
C16_Witness ==
  /\ op.name = "histSet" /\ deco.maxSize = 2
  /\ Len(op.was.deco.past) = 2 /\ Len(deco.past) = 2
  /\ deco.past[1] = op.was.deco.past[2]
  /\ deco.past[1] # op.was.deco.past[1]

\* C17: after N > maxSize writes through the wrapper followed by maxSize
\* calls of undo(), canUndo() is false and get() equals the record held
\* just before the (N - maxSize + 1)-th write.
C17_UndoToOldestRetained ==
  (deco.pure /\ Len(deco.writes) > deco.maxSize /\ deco.undos = deco.maxSize) =>
    /\ ~CanUndo(deco)
    /\ state["A"].val = deco.writes[Len(deco.writes) - deco.maxSize + 1]

\* C18: after every set() through the wrapper canRedo() is false, canUndo()
\* is true and the top of the past is the record held before the write.
C18_SetClearsFuture ==
  op.name = "histSet" =>
    /\ ~CanRedo(deco)
    /\ CanUndo(deco)
    /\ Last(deco.past) = op.before["A"]

\* A write made while a redo was possible.
C18_Witness ==
  /\ op.name = "histSet" /\ CanRedo(op.was.deco)
  /\ state["A"].val # op.before["A"].val

\* What the key holds before withPersist is called.
StoredValues == {Null, EmptyString, NotJson} \cup {Stringify(r) : r \in Records}

\* One cell, written and subscribed to, on which withPersist(store, key) is
\* called at some point.
InitPersist ==
  \E r \in InitRecords, saved \in StoredValues :
    Start([Blank(r, CHOOSE cfg \in NodeConfigs : TRUE, NoWrap) EXCEPT !.deco.localStorage = saved])

NextPersist ==
  \/ DoPersist
  \/ \E upd \in SourceUpdates("A") : Set("A", upd)
  \/ \E f \in Fns : DoSubscribe("A", f)
  \/ \E k \in 1..Len(held) : DoUnsubscribe(k)

SpecPersist == InitPersist /\ [][NextPersist]_vars

\* C19: when the key holds the JSON text of a record, withPersist performs
\* exactly one set of that record on the cell; once withPersist has
\* returned, the key holds the JSON text of the cell's record after every
\* action.
C19_StorageFollowsCell ==
  /\ (op.name = "persist" /\ Parses(op.arg)) =>
       LET sets == SelectSeq(trace, LAMBDA e : e.ev = "set")
           prev == op.before["A"].val
       IN  /\ Len(sets) = 1 /\ sets[1].src = "A"
           /\ DOMAIN state["A"].val = (DOMAIN prev) \cup (DOMAIN op.arg.rec)
           /\ \A k \in DOMAIN state["A"].val :
                state["A"].val[k] = IF k \in DOMAIN op.arg.rec THEN op.arg.rec[k] ELSE prev[k]
  /\ deco.persisted => deco.localStorage = Stringify(state["A"].val)

\* withPersist loaded a saved record, and a later write changed the cell.
C19_Witness ==
  /\ op.name = "set" /\ op.was.deco.persisted
  /\ nextRef["A"] = 3
  /\ state["A"].val # op.before["A"].val
  /\ op.was.deco.localStorage = Stringify(op.before["A"].val)

\* C20: when the key holds a value JSON.parse rejects, withPersist writes
\* nothing to the cell, whose record keeps its identity, and reports one
\* warning.
C20_UnparseableWarns ==
  (op.name = "persist" /\ op.arg # Null /\ ~Parses(op.arg)) =>
    /\ state["A"] = op.before["A"]
    /\ SelectSeq(trace, LAMBDA e : e.ev = "set") = <<>>
    /\ Len(SelectSeq(trace, LAMBDA e : e.ev = "warn")) = 1

\* The recomputations of node n waiting in the microtask queue.
RecomputeTasks(n) == SelectSeq(microtasks, LAMBDA t : t.kind = "recompute" /\ t.id = n)

\* fn applied to what the sources hold now.
ComputeNow(n) == ApplyFn(node[n].fnc, DepValues(Pack, n), NoRef)

\* C23: for a batchedDerived node, the writes of one turn, to one source or
\* to several, never invoke fn themselves; they leave one recomputation
\* queued, however many they are; that recomputation invokes fn once, on what
\* the sources hold when it runs, and leaves get() equal to that result.
C23_BatchedRecomputesOncePerTurn ==
  \A n \in Nodes : node[n].kind = "batchedDerived" =>
    /\ op.name \notin {"create", "recompute"} => Computes(trace) = <<>>
    /\ Len(RecomputeTasks(n)) = IF node[n].pending THEN 1 ELSE 0
    /\ op.name = "set" /\ ~node[n].destroyed => node[n].pending
    /\ op.name = "recompute" =>
         /\ Len(Computes(trace)) = 1
         /\ Computes(trace)[1].val = ComputeNow(n)
         /\ node[n].value = ComputeNow(n)
         /\ RecomputeTasks(n) = <<>>

\* Both sources were written once in a turn, each raising the sum by one, and
\* the recomputation that followed took the value from its initial one to the
\* final one in one step.
C23_Witness ==
  /\ node["N"].kind = "batchedDerived"
  /\ op.name = "recompute"
  /\ nextRef["A"] = 2 /\ nextRef["B"] = 2
  /\ state["B"].val["v"] = 1
  /\ node["N"].value.val = op.before["N"].val + 2
  /\ Len(Computes(trace)) = 1

\* C24: a batchedDerived node calls its subscribers only from the deferred
\* recomputation, each at most once, with the value computed from what the
\* sources hold then, and only when that value is not equal (isEqual) to the
\* one the node held during the turn; the writes themselves deliver nothing.
C24_BatchedNotifiesOncePerTurn ==
  \A n \in Nodes : node[n].kind = "batchedDerived" =>
    LET cs == CallsFrom(trace, n) IN
      /\ op.name \in {"set", "unsubscribe", "destroy"} => cs = <<>>
      /\ op.name = "recompute" =>
           /\ \A i, j \in 1..Len(cs) : cs[i].l = cs[j].l => i = j
           /\ \A i \in 1..Len(cs) : cs[i].val = ComputeNow(n)
           /\ cs # <<>> => ~IsEqual(node[n].eq, op.before[n], ComputeNow(n))
           /\ IsEqual(node[n].eq, op.before[n], ComputeNow(n)) => node[n].value = op.before[n]

\* A subscriber was there while both sources were written in one turn and the
\* sum came back to what it was: the recomputation called nobody.
C24_Witness ==
  /\ node["N"].kind = "batchedDerived"
  /\ op.name = "recompute"
  /\ Len(ActiveOn("N")) = 1 /\ Len(node["N"].listeners) = 1
  /\ nextRef["A"] = 2 /\ nextRef["B"] = 2
  /\ state["B"].val["v"] = 1
  /\ node["N"].value = op.before["N"]
  /\ CallsFrom(trace, "N") = <<>>

\* C26: a derived() node does not invoke fn while its sources are written;
\* a write leaves one recomputation queued for the end of the turn.
C26_DerivedBatches ==
  \A n \in Nodes : node[n].kind = "derived" /\ ~node[n].destroyed =>
    (op.name = "set" => Computes(trace) = <<>> /\ Len(RecomputeTasks(n)) = 1)

\* C27: during a write to a source, the subscribers of a node derived from
\* it are called only after every subscriber of the source has been called.
C27_NodeNotifiesAfterSource ==
  op.name = "set" =>
    \A i, j \in 1..Len(trace) :
      (/\ trace[i].ev = "call" /\ trace[i].src \in Nodes
       /\ trace[j].ev = "call" /\ trace[j].src = op.store) => j < i

\* The registrations of callback f on s whose unsubscribe function was never
\* called.
Registrations(s, f) == SelectSeq(ActiveOn(s), LAMBDA h : h.u.l = UserL(f))

\* The last action changed what get() of s returns.
Changed(s) ==
  IF s \in Cells THEN op.name = "set" /\ op.store = s
  ELSE op.name \in {"set", "recompute"} /\ ~node[s].destroyed /\ node[s].value # op.before[s]

\* C30: on each change of a cell or of a node, a callback is called once for
\* every registration of it that was not unsubscribed, also when the same
\* function was registered more than once.
C30_OneCallPerRegistration ==
  \A s \in {"A", "N"}, f \in Fns :
    Changed(s) =>
      Len(SelectSeq(CallsFrom(trace, s), LAMBDA e : e.l = UserL(f))) = Len(Registrations(s, f))

\* n = derived(a, s => { if (s.v === 1) throw new Error(); return s.v })
StrictConfig == [kind |-> "derived", deps |-> <<"A">>, fnc |-> "strict", eq |-> "is"]

\* A cell, and a node derived from it whose fn throws on one value of the
\* cell (when the initial record holds that value derived() itself throws and
\* there is no node); the updater passed to set() may throw.
InitThrow ==
  \E r \in [{"v"} -> Vals] : Start(CreateNode(Blank(r, StrictConfig, NoWrap), "N"))

NextThrow ==
  \/ \E upd \in SourceUpdates("A") \cup {Thrower} : Set("A", upd)
  \/ \E s \in {"A", "N"}, f \in Fns : DoSubscribe(s, f)
  \/ \E k \in 1..Len(held) : DoUnsubscribe(k)

SpecThrow == InitThrow /\ [][NextThrow]_vars

\* The caller of the last action received an exception.
Raised == trace # <<>> /\ trace[Len(trace)].ev = "uncaught"

\* fn threw during the last action.
FnThrew == \E i \in 1..Len(trace) : trace[i].ev = "throw" /\ trace[i].src \in Nodes

\* C21: when the updater passed to set() throws, the caller of set() gets
\* the exception, the cell holds the same record as before (same identity,
\* same contents), and no listener is called, nor fn of a derived node.
C21_ThrowingUpdaterChangesNothing ==
  op.name = "set" /\ Throws(op.arg) =>
    /\ Raised
    /\ state[op.store] = op.before[op.store]
    /\ CallsIn(trace) = <<>>
    /\ Computes(trace) = <<>>
    /\ \A n \in Nodes : node[n].value = op.before[n]

\* A throwing updater was passed to a cell that has a subscriber of its own
\* and a derived node with a subscriber.
C21_Witness ==
  /\ op.name = "set" /\ Throws(op.arg)
  /\ Len(ActiveOn("A")) >= 1 /\ Len(ActiveOn("N")) >= 1
  /\ node["N"].created

\* C22: when fn throws in a recomputation a write to a source caused, the
\* caller of that write gets the exception and the node keeps its value.
C22_ComputeFailureReachesWriter ==
  op.name = "set" /\ FnThrew =>
    /\ Raised
    /\ \A n \in Nodes : node[n].value = op.before[n]

\* The records and the updates of a store whose field o holds an object.
NestedRecords == {[v |-> x] : x \in Vals} \cup {[v |-> x, o |-> ch] : x \in Vals, ch \in Chains}
NestedUpdates ==
  {[kind |-> "partial", rec |-> [v |-> x]] : x \in Vals} \cup {Updater}
    \cup {[kind |-> "partial", rec |-> [o |-> ch]] : ch \in Chains}

\* One cell behind withFreeze: s = withFreeze(createStore(r)), written through
\* the wrapper and subscribed to.
InitFreeze ==
  \E r \in NestedRecords :
    Start(FreezeWrap(Blank(r, CHOOSE cfg \in NodeConfigs : TRUE, NoWrap), "A"))

NextFreeze ==
  \/ \E upd \in NestedUpdates : DoFreezeSet(upd)
  \/ \E f \in Fns : DoSubscribe("A", f)
  \/ \E k \in 1..Len(held) : DoUnsubscribe(k)

SpecFreeze == InitFreeze /\ [][NextFreeze]_vars

\* Object.isFrozen holds of the record get() returns and of every object
\* nested in it.
DeeplyFrozen(c) ==
  /\ state[c].ref \in deco.frozen
  /\ \A k \in DOMAIN state[c].val :
       IsObjectField(k) => \A i \in 1..Len(state[c].val[k]) : state[c].val[k][i]

\* C25: once withFreeze(store) has returned, and once each set() made through
\* the wrapper has returned, the record get() returns is frozen and so is
\* every object nested in it.
C25_FreezeIsDeep ==
  op.name \in {"create", "freezeSet"} => DeeplyFrozen("A")

\* n = derived(a, s => [s.v]): every write to a changes the value of n.
WrapConfig == [kind |-> "derived", deps |-> <<"A">>, fnc |-> "wrap", eq |-> "is"]

\* A cell and a node derived from it.
InitActive ==
  \E r \in [{"v"} -> Vals] : Start(CreateNode(Blank(r, WrapConfig, NoWrap), "N"))

\* Some of the callbacks subscribe another callback when they are called.
NextSubscribing ==
  \/ \E upd \in SourceUpdates("B") : Set("A", upd)
  \/ \E s \in {"A", "N"}, f \in {"f", "s"} : DoSubscribe(s, f)
  \/ \E k \in 1..Len(held) : DoUnsubscribe(k)

SpecSubscribing == InitActive /\ [][NextSubscribing]_vars

\* Some of the callbacks unsubscribe themselves or others when they are called.
NextUnsubscribing ==
  \/ \E upd \in SourceUpdates("B") : Set("A", upd)
  \/ \E s \in {"A", "N"}, f \in Fns \cup Unsubscribers : DoSubscribe(s, f)
  \/ \E k \in 1..Len(held) : DoUnsubscribe(k)

SpecUnsubscribing == InitActive /\ [][NextUnsubscribing]_vars

\* The callbacks of the application registered on s, in registration order:
\* the handlers on a cell's bus, the functions in a node's Set.
UserListeners(s) ==
  IF s \in Cells
  THEN SelectSeq([i \in 1..Len(bus[s]) |-> [via |-> bus[s][i].hid, l |-> bus[s][i].l]],
                 LAMBDA x : x.l.kind = "user")
  ELSE SelectSeq([i \in 1..Len(node[s].listeners) |-> [via |-> NoHid, l |-> node[s].listeners[i]]],
                 LAMBDA x : x.l.kind = "user")

\* Those store s called in the last action, in the order of the calls.
PassCalls(s) ==
  LET cs == CallsFrom(trace, s) IN [i \in 1..Len(cs) |-> [via |-> cs[i].via, l |-> cs[i].l]]

\* The subscribe() calls callbacks made on s during the last action.
SubscribedIn(tr, s) == SelectSeq(tr, LAMBDA e : e.ev = "subscribe" /\ e.src = s)

IsG(x) == x.l = UserL("g")

Range(q) == {q[i] : i \in 1..Len(q)}

Pos(q, x) == CHOOSE k \in 1..Len(q) : q[k] = x

\* C28: a callback subscribed while a store is calling its listeners gets
\* the immediate call of subscribe() and no other call in that pass: g is
\* called once for each registration it had before the write and once for
\* each subscribe(g) made during it (on a node: when g was not in the Set).
C28_PassListenersFixedAtStart ==
  [][op'.name = "set" =>
       \A s \in {"A", "N"} :
         LET old   == Len(SelectSeq(UserListeners(s), IsG))
             subs  == Len(SubscribedIn(trace', s))
             got   == Len(SelectSeq(CallsFrom(trace', s), IsG))
         IN  subs > 0 /\ (s \in Nodes => old = 0) => got = old + subs]_vars

\* C29: when listeners unsubscribe themselves or others during a write, the
\* callbacks the store calls are called in registration order, none twice,
\* and every callback registered before the write and still registered after
\* it was called.
C29_UnsubscribeDuringPass ==
  [][op'.name = "set" =>
       \A s \in {"A", "N"} :
         LET pre  == UserListeners(s)
             post == UserListeners(s)'
             cs   == PassCalls(s)'
         IN  /\ Range(cs) \subseteq Range(pre)
             /\ \A i, j \in 1..Len(cs) : i < j => Pos(pre, cs[i]) < Pos(pre, cs[j])
             /\ Range(pre) \cap Range(post) \subseteq Range(cs)]_vars

\* During a write a callback of the node deleted itself from the Set, and
\* the node went on to call a callback registered after it.
C29_Witness ==
  /\ op.name = "set"
  /\ \E i, j \in 1..Len(trace) :
       /\ i < j
       /\ trace[i].ev = "unsubscribe" /\ trace[i].src = "N"
       /\ trace[j].ev = "call" /\ trace[j].src = "N"
       /\ UserListeners("N") = <<[via |-> NoHid, l |-> trace[j].l]>>

\* The node notified by the last write: n is live and the cell written is one
\* of its sources.
Notified(n) ==
  /\ op.name = "set" /\ ~node[n].destroyed
  /\ \E i \in 1..Len(node[n].deps) : node[n].deps[i] = op.store

InitConstruct ==
  \E r \in [{"v"} -> Vals], cfg \in NodeConfigs : Start(Blank(r, cfg, NoWrap))

NextConstruct ==
  \/ \E n \in Nodes : DoCreateNode(n)
  \/ \E c \in Cells : \E upd \in SourceUpdates("B") : Set(c, upd)
  \/ \E s \in {"A", "B", "N"} : DoSubscribe(s, "f")
  \/ RunMicrotask

SpecConstruct == InitConstruct /\ [][NextConstruct]_vars

\* C32: derived() and batchedDerived() invoke fn once and call no listener;
\* the calls the sources make when the node subscribes to them recompute
\* nothing and queue nothing, and the node holds fn of the sources.
C32_ConstructionComputesOnce ==
  op.name = "createNode" =>
    /\ Len(Computes(trace)) = 1
    /\ CallsIn(trace) = <<>>
    /\ microtasks = <<>>
    /\ ~node[op.store].pending
    /\ node[op.store].value.val = ComputeNow(op.store).val

\* The node was built over cells that had been written and have subscribers.
C32_Witness ==
  /\ op.name = "createNode"
  /\ nextRef["A"] > 1
  /\ \E i \in 1..Len(bus["A"]) : bus["A"][i].l = UserL("f")
  /\ Len(node["N"].deps) = 2

\* The calls that write to a cell or through a wrapper.
Writes == {"set", "batchSet", "distinctSet", "freezeSet", "histSet"}

\* C33: a set(updater) call on a cell or on a wrapper calls the updater once.
C33_UpdaterRunsOnce ==
  op.name \in Writes /\ op.arg.kind = "fn" => op.ran = 1

\* withHistory over a cell, over withDistinct(cell) or over withFreeze(cell):
\* h = withHistory(inner, m); the application also writes to inner itself.
InitHistoryOver ==
  \E r \in InitRecords, m \in 1..MaxSize, inner \in {"cell", "distinct", "freeze"} :
    LET S0 == [Blank(r, CHOOSE cfg \in NodeConfigs : TRUE, NoWrap) EXCEPT !.deco.inner = inner]
    IN  Start(HistoryWrap(IF inner = "freeze" THEN FreezeWrap(S0, "A") ELSE S0, "A", m))

NextHistoryOver ==
  \/ \E upd \in SourceUpdates("A") : DoHistSet(upd)
  \/ DoUndo
  \/ DoRedo
  \/ \E upd \in SourceUpdates("A") : DoInnerSet(upd)

SpecHistoryOver == InitHistoryOver /\ [][NextHistoryOver]_vars

\* C34: when undo() or redo() returns, skipNext is false: the notification
\* of the call's own write took it, and the stacks are as the call pushed
\* them.
C34_SkipFlagConsumed ==
  op.name \in {"undo", "redo"} =>
    /\ ~deco.skipNext
    /\ Len(deco.past) + Len(deco.future) = Len(op.was.deco.past) + Len(op.was.deco.future)

\* p = withPersist(withBatching(withDistinct(createStore(r))), key): the
\* application writes through p and subscribes to it.
StackedRecords == {r \in InitRecords : DOMAIN r = {"v"}}

StackedUpdates ==
  {u \in SourceUpdates("A") : u.kind = "fn" \/ DOMAIN u.rec \subseteq {"v"}}

InitStacked ==
  \E r \in StackedRecords, saved \in {Null, NotJson} \cup {Stringify(x) : x \in StackedRecords} :
    LET S0 == [Blank(r, CHOOSE cfg \in NodeConfigs : TRUE,
                     [NewWrap("A") EXCEPT !.inner = "distinct"])
                 EXCEPT !.deco.localStorage = saved, !.deco.given = "batching"]
    IN  Start([Persist(S0, "A") EXCEPT !.deco.persisted = TRUE])

NextStacked ==
  \/ \E upd \in StackedUpdates : DoBatchSet(upd)
  \/ DoSubscribe("A", "f")
  \/ RunMicrotask

SpecStacked == InitStacked /\ [][NextStacked]_vars

\* The localStorage.setItem calls of the last action.
SetItems(tr) == SelectSeq(tr, LAMBDA e : e.ev = "setItem")

\* C35: with withPersist over withBatching over withDistinct, a set() writes
\* nothing to the key; the writes of a turn leave one flush queued, and the
\* flush writes the key once when the merged batch changes the record and
\* not at all when it leaves the record as it is.
C35_PersistOncePerBatch ==
  /\ op.name \in {"batchSet", "subscribe"} =>
       SetItems(trace) = <<>> /\ deco.localStorage = op.was.deco.localStorage
  /\ Len(FlushTasks) = IF wrap.batching THEN 1 ELSE 0
  /\ op.name = "flush" =>
       LET merged == Merge(op.before["A"].val, op.was.wrap.queued)
       IN  /\ Len(SetItems(trace)) = IF merged = op.before["A"].val THEN 0 ELSE 1
           /\ merged = op.before["A"].val => deco.localStorage = op.was.deco.localStorage
           /\ merged # op.before["A"].val => deco.localStorage = Stringify(merged)

\* Three writes of one turn were flushed together and the key was written once.
C35_Witness ==
  /\ op.name = "flush"
  /\ Len(op.was.wrap.raw) = 3
  /\ Len(SetItems(trace)) = 1
  /\ state["A"].val # op.before["A"].val

\* w = withBatching(createStore(r)); some of the subscribers write to the
\* wrapper when they are called.
InitRequeue ==
  \E r \in StackedRecords : Start(Blank(r, CHOOSE cfg \in NodeConfigs : TRUE, NewWrap("A")))

NextRequeue ==
  \/ \E upd \in StackedUpdates : DoBatchSet(upd)
  \/ \E f \in {"f", "w"} : DoSubscribe("A", f)
  \/ \E k \in 1..Len(held) : DoUnsubscribe(k)
  \/ RunMicrotask

SpecRequeue == InitRequeue /\ [][NextRequeue]_vars

\* The writes callbacks made in the last action.
WritesIn(tr) == SelectSeq(tr, LAMBDA e : e.ev = "write")

\* r has every field of u, with the value u gives it.
Contains(r, u) == \A k \in DOMAIN u : k \in DOMAIN r /\ r[k] = u[k]

\* C36: once the flush has run and no other is pending, the cell's record
\* contains every update written through the wrapper, those a subscriber
\* wrote while the flush was notifying it included.
C36_QueuedUpdatesApplied ==
  (op.name = "flush" /\ FlushTasks = <<>>) =>
    \A i \in 1..Len(WritesIn(trace)) :
      Contains(state["A"].val, WriteOf[WritesIn(trace)[i].l.id].rec)

\* The updates queued before the flush started are in the record after it.
C36_QueuedBeforeFlushApplied ==
  op.name = "flush" => Contains(state["A"].val, op.was.wrap.queued)

\* One cell; some of its subscribers write to it when they are called.
InitReentrant ==
  \E r \in StackedRecords : Start(Blank(r, CHOOSE cfg \in NodeConfigs : TRUE, NoWrap))

NextReentrant ==
  \/ \E upd \in StackedUpdates : Set("A", upd)
  \/ \E f \in {"f", "r"} : DoSubscribe("A", f)
  \/ \E k \in 1..Len(held) : DoUnsubscribe(k)

SpecReentrant == InitReentrant /\ [][NextReentrant]_vars

\* The calls the last action made through the subscription hid.
CallsVia(tr, hid) == SelectSeq(tr, LAMBDA e : e.ev = "call" /\ e.via = hid)

\* The last record each subscription of cell c on the bus was called with in
\* the last action is the record c holds.
LastDeliveredIsCurrent(c) ==
  \A i \in 1..Len(bus[c]) :
    LET cs == CallsVia(trace, bus[c][i].hid)
    IN  (bus[c][i].l.kind = "user" /\ cs # <<>>) => cs[Len(cs)].val = state[c]

\* C37: once a set() made by the application on a cell has returned, the last
\* record each subscribed listener was called with is the record get()
\* returns, also when a listener wrote to the cell during its notification.
C37_LastDeliveredIsCurrent ==
  op.name = "set" => LastDeliveredIsCurrent("A")

\* The same when no listener wrote during the notification.
C37_WithoutReentry ==
  (op.name = "set" /\ WritesIn(trace) = <<>>) =>
    /\ LastDeliveredIsCurrent("A")
    /\ \A i \in 1..Len(bus["A"]) : Len(CallsVia(trace, bus["A"][i].hid)) = 1

\* A graph of derived nodes with a diamond:
\*   p = derived(a, s => s.v); q = derived([a, b], (x, y) => x.v + y.v);
\*   n = derived([p, q], (p, q) => q - p)
GraphConfig ==
  [P |-> [kind |-> "derived", deps |-> <<"A">>,      fnc |-> "field", eq |-> "is"],
   Q |-> [kind |-> "derived", deps |-> <<"A", "B">>, fnc |-> "sum",   eq |-> "is"],
   N |-> [kind |-> "derived", deps |-> <<"P", "Q">>, fnc |-> "minus", eq |-> "is"]]

GraphNodes == DOMAIN GraphConfig

\* The two cells, and the variables of the three nodes before derived() runs.
GraphBlank(r) ==
  [Blank(r, GraphConfig["N"], NoWrap)
     EXCEPT !.node = [n \in GraphNodes |-> NewNode(GraphConfig[n])],
            !.nextRef = [s \in Cells \cup GraphNodes |-> IF s \in Cells THEN 1 ELSE 0]]

InitGraph ==
  \E r \in [{"v"} -> Vals] :
    Start(CreateNode(CreateNode(CreateNode(GraphBlank(r), "P"), "Q"), "N"))

NextGraph ==
  \/ \E c \in Cells : \E upd \in SourceUpdates("B") : Set(c, upd)
  \/ \E n \in GraphNodes : DoSubscribe(n, "f")
  \/ \E k \in 1..Len(held) : DoUnsubscribe(k)
  \/ \E n \in GraphNodes : DoDestroy(n)

SpecGraph == InitGraph /\ [][NextGraph]_vars

\* derived() was called for n and destroy() was not.
Live(S, n) == S.node[n].created /\ ~S.node[n].destroyed

\* get() of node n is fn applied to what get() of its sources returns.
UpToDate(S, n) ==
  S.node[n].value = ApplyFn(S.node[n].fnc, DepValues(S, n), Ref(n, S.nextRef[n]))

\* The calls node n made to the callback l in the action.
CallsTo(tr, n, l) == SelectSeq(tr, LAMBDA e : e.ev = "call" /\ e.src = n /\ e.l = l)

\* C38: in a graph of derived nodes with a diamond, once a set() on a cell
\* has returned the value of every live node is its function applied to the
\* current values of its sources, and each subscriber of the node was last
\* called with that value: the last call of the set() passed it, or the
\* set() made no call and left the value the subscriber already had.
C38_GraphConsistentAfterSet ==
  [][op'.name = "set" =>
       \A n \in GraphNodes :
         Live(Pack', n) =>
           /\ UpToDate(Pack', n)
           /\ \A i \in 1..Len(node'[n].listeners) :
                LET l  == node'[n].listeners[i]
                    cs == CallsTo(trace', n, l)
                IN  l.kind = "user" =>
                      IF cs = <<>> THEN node'[n].value = node[n].value
                      ELSE cs[Len(cs)].val = node'[n].value]_vars

\* subscribe(f) on a node calls f with the value get() returns.
C38_CatchUpIsCurrent ==
  (op.name = "subscribe" /\ op.store \in GraphNodes) =>
    /\ Len(CallsFrom(trace, op.store)) = 1
    /\ CallsFrom(trace, op.store)[1].val = node[op.store].value

\* A write to the shared cell reached the bottom of the diamond twice: its
\* subscriber was called with the value computed from one updated source,
\* then with the value computed from both.
C38_Witness ==
  /\ op.name = "set" /\ op.store = "A"
  /\ \A n \in GraphNodes : Live(Pack, n) /\ UpToDate(Pack, n)
  /\ LET cs == CallsTo(trace, "N", UserL("f"))
     IN  /\ Len(cs) = 2
         /\ cs[1].val # cs[2].val
         /\ cs[2].val = node["N"].value

\* withHistory over a cell, written with partials, updaters and an updater
\* that throws.
NextHistoryThrow ==
  \/ \E upd \in StackedUpdates \cup {Thrower} : DoHistSet(upd)
  \/ DoUndo
  \/ DoRedo

SpecHistoryThrow == InitHistory /\ [][NextHistoryThrow]_vars

\* C39: a set() through withHistory whose updater throws leaves the past and
\* future stacks and the record as they were before the call.
C39_ThrowingSetLeavesHistory ==
  (op.name = "histSet" /\ Throws(op.arg)) =>
    /\ deco.past = op.was.deco.past
    /\ deco.future = op.was.deco.future
    /\ state["A"] = op.before["A"]

\* The exception reaches the caller and the record is as it was.
C39_ThrowingSetLeavesRecord ==
  (op.name = "histSet" /\ Throws(op.arg)) => (Raised /\ state["A"] = op.before["A"])

\* C40: the catch-up call of subscribe on a withBatching wrapper passes the
\* record the wrapper's get() returns at that moment, the writes queued and
\* not yet flushed included.
C40_CatchUpIsWrapperGet ==
  (op.name = "subscribe" /\ op.store = "A") =>
    \A i \in 1..Len(CallsFrom(trace, "A")) :
      CallsFrom(trace, "A")[i].val.val = BatchGet(Pack)

\* With nothing queued the catch-up call passes what get() returns.
C40_CatchUpWhenNothingQueued ==
  (op.name = "subscribe" /\ op.store = "A" /\ wrap.queued = EmptyRec) =>
    /\ Len(CallsFrom(trace, "A")) = 1
    /\ CallsFrom(trace, "A")[1].val.val = BatchGet(Pack)

====
